---- MODULE Spec2Model ----
(***************************************************************************)
(* Instanced 2d mesh rendering (phisn/instancing).                         *)
(*                                                                         *)
(* Two source variants are modelled, selected by the variable `variant`:   *)
(*   "children" : src/v0.12.1/src/main.rs, a host entity whose instance    *)
(*                records are aggregated from its child entities by        *)
(*                prepare_buffer;                                          *)
(*   "direct"   : src/src/main.rs, a host entity that carries its instance *)
(*                records directly (InstanceMaterialData).                 *)
(*                                                                         *)
(* The main world (simulation) and the render world run as two pipelined   *)
(* processes that meet at extraction: mainPc and renderPc are their        *)
(* positions in the frame schedule.                                        *)
(***************************************************************************)
EXTENDS Integers, Sequences, FiniteSets, TLC

\* ------------------------------------------------------------------ bounds
MaxFrames == 2
MaxChildren == 2
MaxSimOps == 2

\* ----------------------------------------------------------------- domains
Hosts == {1, 2}
Views == {1, 2}
ChildIds == 1..MaxChildren
Variants == {"children", "direct"}

\* Option<T>: None is the empty tuple, Some(x) the one-element tuple
None == <<>>
Some(x) == <<x>>
IsSome(o) == o # <<>>
Unwrap(o) == o[1]

\* a host without a visible Mesh2dHandle
NoMesh == "none"

\* f32 values are kept as their IEEE-754 bit patterns:
\* 0 is 0.0, 1065353216 is 1.0 and 1073741824 is 2.0
Translations == {<<0, 0, 0>>, <<1065353216, 1073741824, 0>>}
Scales == {1065353216, 1073741824}
Colors == {<<1065353216, 0, 0, 1065353216>>, <<0, 0, 1073741824, 1065353216>>}
Depths == {0, 1065353216}

\* InstancedMaterialChild { color, scale } + Transform { translation } of one child entity
ChildValue(t, s, c) == [translation |-> t, scale |-> s, color |-> c]

\* the child values a spawn may carry: every field takes two values
SpawnValues ==
    {ChildValue(<<0, 0, 0>>, 1065353216, <<1065353216, 0, 0, 1065353216>>),
     ChildValue(<<1065353216, 1073741824, 0>>, 1073741824, <<0, 0, 1073741824, 1065353216>>)}

\* struct InstanceData { position, scale, color }
InstanceData(p, s, c) == [position |-> p, scale |-> s, color |-> c]

\* the records a directly stored InstanceMaterialData may be given
DirectValues ==
    {InstanceData(v.translation, v.scale, v.color) : v \in SpawnValues}

\* Mesh handles a host may carry.  "unloaded" is a handle whose asset is not in
\* RenderAssets<Mesh>; the others are prepared GPU meshes.
MeshHandles == {"quad", "strip", "invalid", "unloaded"}

\* RenderAssets<Mesh>: the GpuMesh of each prepared mesh
GpuMeshes ==
    [quad    |-> [primitive_topology |-> "TriangleList", layout |-> "pos_normal_uv",
                  vertex_count |-> 4, buffer_info |-> [indexed |-> TRUE, count |-> 6]],
     strip   |-> [primitive_topology |-> "TriangleStrip", layout |-> "pos_normal_uv",
                  vertex_count |-> 3, buffer_info |-> [indexed |-> FALSE, count |-> 0]],
     invalid |-> [primitive_topology |-> "TriangleList", layout |-> "invalid",
                  vertex_count |-> 3, buffer_info |-> [indexed |-> FALSE, count |-> 0]]]

\* Res<Msaa>
Msaa == [samples |-> 4]

\* the z translation of the camera, Transform::from_xyz(0.0, 0.0, 15.0): 15.0 as f32 bits
CameraZ == 1097859072

VARIABLES
    variant,        \* which source variant runs
    mainPc,         \* main world: "update" | "sync"
    renderPc,       \* render world: "idle" | "queue" | "sort" | "prepare" | "render" | "cleanup"
    frame,          \* number of extractions done
    simOps,         \* simulation mutations done so far
    panic,          \* "none", or the function whose unwrap panicked and ended the process
    \* ---- main world
    hasChildren,    \* host -> the host carries a Children component
    children,       \* host -> sequence of child entity ids (the Children component)
    entities,       \* the child ids whose entity exists
    child,          \* child id -> Some(ChildValue) of an entity that carries InstancedMaterialChild
                    \* and Transform, None for any other or no entity
    hostBuffer,     \* host -> instance records (InstancedMaterialHost.buffer / InstanceMaterialData.0)
    hostMesh,       \* host -> mesh handle, or NoMesh
    hostZ,          \* host -> transform.translation.z
    cameraHdr,      \* view -> camera hdr flag
    shaderLoaded,   \* the asset server has loaded shaders/instancing.wgsl
    \* ---- render world
    extracted,      \* host -> Some(copy of the instance records), or None
    meshInstances,  \* RenderMesh2dInstances: host -> Some([mesh_asset_id, z]) or None
    views,          \* view -> ExtractedView [hdr, z], z the translation.z of its transform
    pipelines,      \* SpecializedMeshPipelines cache: set of [layout, key, id]
    phase,          \* view -> sequence of Transparent2d items
    instanceBuffer, \* host -> Some(InstanceBuffer component) or None
    \* ---- history of what the render side did
    simAtExtract,   \* host -> main-world records at the last extraction
    liveAtExtract,  \* host -> the host's child values, in order, at the last extraction
    requests,       \* every answered specialization request: [layout, key, id, entity, view, frame]
    compiled,       \* sequence of [layout, key] handed to the pipeline cache for compilation
    errLog,         \* set of [view, entity] logged by error! in this frame
    queueLog,       \* view -> sequence of entities in the order queue_custom added them
    buffersCreated, \* number of GPU buffers created so far
    passLog,        \* view -> sequence of [entity, result, commands] per drawn item
    stageRuns       \* how often each system has run: [aggregate, queue, prepare, render]

sceneVars == <<hostMesh, hostZ, cameraHdr>>
childVars == <<hasChildren, children, entities, child>>
mainVars == <<hasChildren, children, entities, child, hostBuffer, hostMesh, hostZ, cameraHdr,
              simOps>>
queueVars == <<pipelines, compiled, requests, phase, errLog, queueLog>>
bufferVars == <<instanceBuffer, buffersCreated>>
renderVars == <<extracted, meshInstances, views, simAtExtract, liveAtExtract, pipelines,
                compiled, requests, phase, errLog, queueLog, instanceBuffer, buffersCreated,
                passLog>>
vars == <<variant, mainPc, renderPc, frame, simOps, panic, hasChildren, children,
          entities, child, hostBuffer, hostMesh, hostZ, cameraHdr, shaderLoaded, extracted,
          meshInstances, views, pipelines, phase, instanceBuffer, simAtExtract,
          liveAtExtract, requests, compiled, errLog, queueLog, buffersCreated, passLog,
          stageRuns>>

Panicked == panic # "none"

\* ------------------------------------------------------------ helpers
SetMin(S) == CHOOSE x \in S : \A y \in S : x <= y

Range(s) == {s[i] : i \in 1..Len(s)}

RemoveFrom(s, x) == SelectSeq(s, LAMBDA y : y # x)

\* child ids named by some Children component
Referenced == UNION {Range(children[h]) : h \in Hosts}

\* ids a spawn may take: never one that is alive or still named by a parent
FreeChildIds == {c \in ChildIds : c \notin entities /\ c \notin Referenced}

ParentOf(c) == CHOOSE h \in Hosts : c \in Range(children[h])

\* ------------------------------------------------- simulation (main world)
CanSimulate == ~Panicked /\ mainPc = "update" /\ simOps < MaxSimOps

\* what a simulation step leaves alone besides the main-world store it writes
SimFrame ==
    /\ simOps' = simOps + 1
    /\ UNCHANGED <<variant, mainPc, renderPc, frame, panic, shaderLoaded, renderVars,
                   stageRuns>>

\* parent.spawn((InstancedMaterialChild {..}, TransformBundle {..})) under host h
AddChild(h, v) ==
    /\ CanSimulate
    /\ variant = "children"
    /\ FreeChildIds # {}
    /\ LET c == SetMin(FreeChildIds) IN
        /\ entities' = entities \cup {c}
        /\ child' = [child EXCEPT ![c] = Some(v)]
        /\ children' = [children EXCEPT ![h] = Append(@, c)]
        /\ hasChildren' = [hasChildren EXCEPT ![h] = TRUE]
    /\ SimFrame
    /\ UNCHANGED <<hostBuffer, sceneVars>>

\* parent.spawn(..) of a child entity that carries no InstancedMaterialChild
AddPlainChild(h) ==
    /\ CanSimulate
    /\ variant = "children"
    /\ FreeChildIds # {}
    /\ LET c == SetMin(FreeChildIds) IN
        /\ entities' = entities \cup {c}
        /\ children' = [children EXCEPT ![h] = Append(@, c)]
        /\ hasChildren' = [hasChildren EXCEPT ![h] = TRUE]
    /\ SimFrame
    /\ UNCHANGED <<child, hostBuffer, sceneVars>>

\* A child leaves its host and is despawned.  With keepComponent the child is
\* despawned recursively, which only retains the other ids in Children; without
\* it the child is taken out with remove_children first, which drops the
\* Children component of a host left with no child.
RemoveChild(c, keepComponent) ==
    /\ CanSimulate
    /\ variant = "children"
    /\ child[c] # None
    /\ c \in Referenced
    /\ LET h == ParentOf(c)
           rest == RemoveFrom(children[h], c) IN
        /\ children' = [children EXCEPT ![h] = rest]
        /\ hasChildren' = [hasChildren EXCEPT ![h] = keepComponent \/ rest # <<>>]
    /\ child' = [child EXCEPT ![c] = None]
    /\ entities' = entities \ {c}
    /\ SimFrame
    /\ UNCHANGED <<hostBuffer, sceneVars>>

\* commands.entity(c).despawn(): the entity goes, its parent's Children still names it
DespawnChildOnly(c) ==
    /\ CanSimulate
    /\ variant = "children"
    /\ child[c] # None
    /\ child' = [child EXCEPT ![c] = None]
    /\ entities' = entities \ {c}
    /\ SimFrame
    /\ UNCHANGED <<hasChildren, children, hostBuffer, sceneVars>>

\* a system writes the child's Transform.translation
SetTranslation(c, t) ==
    /\ CanSimulate
    /\ variant = "children"
    /\ child[c] # None
    /\ Unwrap(child[c]).translation # t
    /\ child' = [child EXCEPT ![c] = Some([Unwrap(@) EXCEPT !.translation = t])]
    /\ SimFrame
    /\ UNCHANGED <<hasChildren, children, entities, hostBuffer, sceneVars>>

\* a system writes the child's InstancedMaterialChild { color, scale }
SetChildAttributes(c, s, col) ==
    /\ CanSimulate
    /\ variant = "children"
    /\ child[c] # None
    /\ <<Unwrap(child[c]).scale, Unwrap(child[c]).color>> # <<s, col>>
    /\ child' = [child EXCEPT ![c] = Some([Unwrap(@) EXCEPT !.scale = s, !.color = col])]
    /\ SimFrame
    /\ UNCHANGED <<hasChildren, children, entities, hostBuffer, sceneVars>>

\* direct variant: a system rewrites the host's InstanceMaterialData vector
PushInstance(h, d) ==
    /\ CanSimulate
    /\ variant = "direct"
    /\ Len(hostBuffer[h]) < MaxChildren
    /\ hostBuffer' = [hostBuffer EXCEPT ![h] = Append(@, d)]
    /\ SimFrame
    /\ UNCHANGED <<childVars, sceneVars>>

PopInstance(h) ==
    /\ CanSimulate
    /\ variant = "direct"
    /\ hostBuffer[h] # <<>>
    /\ hostBuffer' = [hostBuffer EXCEPT ![h] = SubSeq(@, 1, Len(@) - 1)]
    /\ SimFrame
    /\ UNCHANGED <<childVars, sceneVars>>

\* the host's mesh handle, depth, or a camera's hdr flag changes
SetMesh(h, m) ==
    /\ CanSimulate
    /\ hostMesh[h] # m
    /\ hostMesh' = [hostMesh EXCEPT ![h] = m]
    /\ SimFrame
    /\ UNCHANGED <<childVars, hostBuffer, hostZ, cameraHdr>>

SetHostZ(h, z) ==
    /\ CanSimulate
    /\ hostZ[h] # z
    /\ hostZ' = [hostZ EXCEPT ![h] = z]
    /\ SimFrame
    /\ UNCHANGED <<childVars, hostBuffer, hostMesh, cameraHdr>>

SetCameraHdr(v, b) ==
    /\ CanSimulate
    /\ cameraHdr[v] # b
    /\ cameraHdr' = [cameraHdr EXCEPT ![v] = b]
    /\ SimFrame
    /\ UNCHANGED <<childVars, hostBuffer, hostMesh, hostZ>>

\* the asset server finishes loading the custom shader
LoadShader ==
    /\ ~Panicked
    /\ ~shaderLoaded
    /\ shaderLoaded' = TRUE
    /\ UNCHANGED <<variant, mainPc, renderPc, frame, panic, mainVars, renderVars, stageRuns>>

\* ----------------------------------------------------- aggregation (Last)
\* Query<(&mut InstancedMaterialHost, &Children)>: the hosts the loop visits
AggregatedHosts == {h \in Hosts : hasChildren[h]}

\* InstanceData { position: child_transform.translation, scale: child.scale, color: child.color }
ChildRecord(v) == InstanceData(v.translation, v.scale, v.color)

\* positions in the host's Children whose entity the child query does not
\* return, because it does not exist or does not carry both components
\* (get(..).unwrap() panics)
MissingAt(h) == {i \in 1..Len(children[h]) : child[children[h][i]] = None}

\* the records the loop pushes for host h before it ends or panics: the child
\* iterator is lazy, so the children ahead of a missing one are pushed
PushedRecords(h) ==
    LET n == IF MissingAt(h) = {} THEN Len(children[h]) ELSE SetMin(MissingAt(h)) - 1
    IN  [i \in 1..n |-> ChildRecord(Unwrap(child[children[h][i]]))]

\* mutant of Cleared: the buffer keeps its records
NotCleared(buffer) == buffer

\* instanced_material.buffer.clear()
Cleared(buffer) == <<>>

\* hosts at which the loop panics
PanicHosts == {h \in AggregatedHosts : MissingAt(h) # {}}

\* the buffer of host h when prepare_buffer returns or panics
PrepareBufferOf(h) ==
    IF h \in AggregatedHosts /\ (PanicHosts = {} \/ h <= SetMin(PanicHosts))
    THEN Cleared(hostBuffer[h]) \o PushedRecords(h)
    ELSE hostBuffer[h]

\* fn prepare_buffer, the system of the Last schedule (parent/child variant)
PrepareBuffer ==
    /\ ~Panicked
    /\ variant = "children"
    /\ mainPc = "update"
    /\ hostBuffer' = [h \in Hosts |-> PrepareBufferOf(h)]
    /\ panic' = IF PanicHosts # {} THEN "prepare_buffer" ELSE "none"
    /\ mainPc' = "sync"
    /\ stageRuns' = [stageRuns EXCEPT !.aggregate = @ + 1]
    /\ UNCHANGED <<variant, renderPc, frame, simOps, childVars, sceneVars, shaderLoaded,
                   renderVars>>

\* direct variant: the main schedule ends, no system of this plugin runs in it
FinishUpdate ==
    /\ ~Panicked
    /\ variant = "direct"
    /\ mainPc = "update"
    /\ mainPc' = "sync"
    /\ UNCHANGED <<variant, renderPc, frame, panic, mainVars, shaderLoaded, renderVars,
                   stageRuns>>

\* ------------------------------------------------------------- extraction
\* the values of the entities a host's Children names that exist, in order
LiveChildren(h) ==
    LET live == SelectSeq(children[h], LAMBDA c : child[c] # None)
    IN  [i \in 1..Len(live) |-> Unwrap(child[live[i]])]

\* extract_component: InstanceMaterialData(item.0.clone()) / #[derive(Clone, ExtractComponent)]
ExtractComponent(item) ==
    [i \in 1..Len(item) |->
        [position |-> item[i].position, scale |-> item[i].scale, color |-> item[i].color]]

EmptyPhases == [v \in Views |-> <<>>]

\* The extract schedule: the main world waits for the render world to finish
\* the previous frame, then the render world receives its copies.
Extract ==
    /\ ~Panicked
    /\ mainPc = "sync"
    /\ renderPc = "idle"
    /\ frame < MaxFrames
    /\ extracted' = [h \in Hosts |-> Some(ExtractComponent(hostBuffer[h]))]
    /\ simAtExtract' = hostBuffer
    /\ liveAtExtract' = [h \in Hosts |-> LiveChildren(h)]
    /\ meshInstances' = [h \in Hosts |->
            IF hostMesh[h] = NoMesh THEN None
            ELSE Some([mesh_asset_id |-> hostMesh[h], z |-> hostZ[h]])]
    /\ views' = [v \in Views |-> [hdr |-> cameraHdr[v], z |-> CameraZ]]
    /\ phase' = EmptyPhases
    /\ queueLog' = EmptyPhases
    /\ passLog' = EmptyPhases
    /\ errLog' = {}
    /\ frame' = frame + 1
    /\ mainPc' = "update"
    /\ renderPc' = "queue"
    /\ UNCHANGED <<variant, panic, mainVars, shaderLoaded, pipelines, compiled,
                   requests, instanceBuffer, buffersCreated, stageRuns>>

\* ------------------------------------------------ pipeline specialization
\* size_of::<InstanceData>(): three position floats, one scale float, four color floats
InstanceDataSize == 4 * (3 + 1 + 4)

\* VertexFormat::Float32x4.size()
Float32x4Size == 4 * 4

CustomShader == "shaders/instancing.wgsl"

\* self.mesh_pipeline.specialize(key, layout): the descriptor of the 2d mesh
\* pipeline, or an error for a vertex layout it cannot use
Mesh2dSpecialize(key, layout) ==
    IF layout = "invalid"
    THEN [ok |-> FALSE, value |-> None]
    ELSE [ok |-> TRUE, value |-> Some(
            [vertex |-> [shader |-> "mesh2d.wgsl",
                         shader_defs |-> <<"VERTEX_POSITIONS", "VERTEX_NORMALS", "VERTEX_UVS">>,
                         buffers |-> <<[array_stride |-> 32, step_mode |-> "Vertex",
                                        attributes |-> <<[format |-> "Float32x3", offset |-> 0, shader_location |-> 0],
                                                         [format |-> "Float32x3", offset |-> 12, shader_location |-> 1],
                                                         [format |-> "Float32x2", offset |-> 24, shader_location |-> 2]>>]>>],
             fragment |-> [shader |-> "mesh2d.wgsl", hdr |-> key.hdr],
             primitive_topology |-> key.primitive_topology,
             multisample_count |-> key.msaa_samples])]

\* mutant of InstanceVertexLayout: the layout is stepped per vertex
InstanceVertexLayoutPerVertex ==
    [array_stride |-> InstanceDataSize, step_mode |-> "Vertex",
     attributes |-> <<[format |-> "Float32x4", offset |-> 0, shader_location |-> 3],
                      [format |-> "Float32x4", offset |-> Float32x4Size, shader_location |-> 4]>>]

\* the vertex buffer layout CustomPipeline::specialize appends
InstanceVertexLayout ==
    [array_stride |-> InstanceDataSize, step_mode |-> "Instance",
     attributes |-> <<[format |-> "Float32x4", offset |-> 0, shader_location |-> 3],
                      [format |-> "Float32x4", offset |-> Float32x4Size, shader_location |-> 4]>>]

\* mutant of CustomSpecialize: the instance layout is put in front of the base
\* layouts
CustomSpecializeInstanceFirst(key, layout) ==
    LET base == Mesh2dSpecialize(key, layout) IN
    IF ~base.ok THEN base
    ELSE LET d == Unwrap(base.value) IN
         [ok |-> TRUE, value |-> Some(
            [d EXCEPT !.vertex.shader_defs = Append(@, "MESH_BINDGROUP_1"),
                      !.vertex.shader = CustomShader,
                      !.vertex.buffers = <<InstanceVertexLayout>> \o @,
                      !.fragment.shader = CustomShader])]

\* impl SpecializedMeshPipeline for CustomPipeline: fn specialize
CustomSpecialize(key, layout) ==
    LET base == Mesh2dSpecialize(key, layout) IN
    IF ~base.ok THEN base
    ELSE LET d == Unwrap(base.value) IN
         [ok |-> TRUE, value |-> Some(
            [d EXCEPT !.vertex.shader_defs = Append(@, "MESH_BINDGROUP_1"),
                      !.vertex.shader = CustomShader,
                      !.vertex.buffers = Append(@, InstanceVertexLayout),
                      !.fragment.shader = CustomShader])]

\* the cache entries of SpecializedMeshPipelines for a layout and key
CacheHit(cache, layout, key) == {e \in cache : e.layout = layout /\ e.key = key}

\* pipelines.specialize(&pipeline_cache, &custom_pipeline, key, &mesh.layout): the
\* cached id on a hit; on a miss the descriptor is specialized and, if that
\* succeeds, queued for compilation under a new id and entered in the cache
Specialize(cache, log, key, layout) ==
    LET hit == CacheHit(cache, layout, key) IN
    IF hit # {}
    THEN [ok |-> TRUE, id |-> (CHOOSE e \in hit : TRUE).id, pipelines |-> cache, compiled |-> log]
    ELSE IF ~CustomSpecialize(key, layout).ok
    THEN [ok |-> FALSE, id |-> 0, pipelines |-> cache, compiled |-> log]
    ELSE [ok |-> TRUE, id |-> Len(log) + 1,
          pipelines |-> cache \cup {[layout |-> layout, key |-> key, id |-> Len(log) + 1]},
          compiled |-> Append(log, [layout |-> layout, key |-> key])]

\* ------------------------------------------------------ render queue builder
\* msaa_key | from_hdr(view.hdr) | from_primitive_topology(mesh.primitive_topology):
\* the three flags occupy disjoint bit fields of the key
PipelineKey(view, mesh) ==
    [msaa_samples |-> Msaa.samples, hdr |-> view.hdr,
     primitive_topology |-> mesh.primitive_topology]

\* the Transparent2d item queue_custom adds
Transparent2d(mesh_z, entity, pipeline) ==
    [sort_key |-> mesh_z, entity |-> entity, pipeline |-> pipeline,
     draw_function |-> "DrawCustom", batch_range |-> <<0, 1>>, dynamic_offset |-> None]

\* the arm of queue_custom taken when specialization returns Err: the
\* parent/child variant logs the error and continues with the next host, the
\* direct variant unwraps the result and panics
OnSpecializeError(v, e, st) ==
    IF st.variant = "children"
    THEN [st EXCEPT !.errLog = @ \cup {[view |-> v, entity |-> e]}]
    ELSE [st EXCEPT !.panicked = TRUE]

\* mutant of QueueHost: a host whose mesh instance or mesh asset does not
\* resolve is handled like a failed specialization
QueueHostReportingUnresolved(v, e, st) ==
    IF meshInstances[e] = None THEN OnSpecializeError(v, e, st)
    ELSE LET mesh_instance == Unwrap(meshInstances[e]) IN
    IF mesh_instance.mesh_asset_id \notin DOMAIN GpuMeshes THEN OnSpecializeError(v, e, st)
    ELSE LET mesh == GpuMeshes[mesh_instance.mesh_asset_id]
             key == PipelineKey(views[v], mesh)
             r == Specialize(st.pipelines, st.compiled, key, mesh.layout) IN
    IF ~r.ok THEN OnSpecializeError(v, e, st)
    ELSE [st EXCEPT !.pipelines = r.pipelines,
                    !.compiled = r.compiled,
                    !.requests = @ \cup {[layout |-> mesh.layout, key |-> key, id |-> r.id,
                                          entity |-> e, view |-> v, frame |-> frame]},
                    !.phase[v] = Append(@, Transparent2d(mesh_instance.z, e, r.id)),
                    !.queueLog[v] = Append(@, e)]

\* the body of the inner loop of queue_custom for view v and host e
QueueHost(v, e, st) ==
    IF meshInstances[e] = None THEN st
    ELSE LET mesh_instance == Unwrap(meshInstances[e]) IN
    IF mesh_instance.mesh_asset_id \notin DOMAIN GpuMeshes THEN st
    ELSE LET mesh == GpuMeshes[mesh_instance.mesh_asset_id]
             key == PipelineKey(views[v], mesh)
             r == Specialize(st.pipelines, st.compiled, key, mesh.layout) IN
    IF ~r.ok THEN OnSpecializeError(v, e, st)
    ELSE [st EXCEPT !.pipelines = r.pipelines,
                    !.compiled = r.compiled,
                    !.requests = @ \cup {[layout |-> mesh.layout, key |-> key, id |-> r.id,
                                          entity |-> e, view |-> v, frame |-> frame]},
                    !.phase[v] = Append(@, Transparent2d(mesh_instance.z, e, r.id)),
                    !.queueLog[v] = Append(@, e)]

\* mutant of CachedPipelines: the cache starts empty in every frame
FreshPipelines == {}

\* mut pipelines: ResMut<SpecializedMeshPipelines<CustomPipeline>>: the cache
\* resource, initialised once and kept from frame to frame
CachedPipelines == pipelines

NumHosts == Cardinality(Hosts)
NumViews == Cardinality(Views)

\* for view in views { for entity in material_meshes { .. } }: step k of the
\* nested loop visits view (k-1) \div NumHosts + 1 and host (k-1) % NumHosts + 1;
\* a panic ends the loop
RECURSIVE QueueLoop(_, _)
QueueLoop(k, st) ==
    IF k > NumViews * NumHosts \/ st.panicked THEN st
    ELSE QueueLoop(k + 1, QueueHost(((k - 1) \div NumHosts) + 1, ((k - 1) % NumHosts) + 1, st))

\* fn queue_custom, in RenderSet::Queue
QueueCustom ==
    /\ ~Panicked
    /\ renderPc = "queue"
    /\ LET st == QueueLoop(1, [pipelines |-> CachedPipelines, compiled |-> compiled,
                               requests |-> requests, phase |-> phase, errLog |-> errLog,
                               queueLog |-> queueLog, panicked |-> FALSE,
                               variant |-> variant]) IN
        /\ pipelines' = st.pipelines
        /\ compiled' = st.compiled
        /\ requests' = st.requests
        /\ phase' = st.phase
        /\ errLog' = st.errLog
        /\ queueLog' = st.queueLog
        /\ panic' = IF st.panicked THEN "queue_custom" ELSE "none"
    /\ renderPc' = "sort"
    /\ stageRuns' = [stageRuns EXCEPT !.queue = @ + 1]
    /\ UNCHANGED <<variant, mainPc, frame, mainVars, shaderLoaded, extracted, meshInstances,
                   views, simAtExtract, liveAtExtract, instanceBuffer, buffersCreated,
                   passLog>>

\* stable insertion of item x into a sequence sorted by ascending sort_key
RECURSIVE InsertSorted(_, _)
InsertSorted(s, x) ==
    IF s = <<>> THEN <<x>>
    ELSE IF s[Len(s)].sort_key <= x.sort_key THEN Append(s, x)
    ELSE Append(InsertSorted(SubSeq(s, 1, Len(s) - 1), x), s[Len(s)])

RECURSIVE SortByKey(_)
SortByKey(s) ==
    IF s = <<>> THEN <<>>
    ELSE InsertSorted(SortByKey(SubSeq(s, 1, Len(s) - 1)), s[Len(s)])

\* RenderSet::PhaseSort: each view's Transparent2d phase is sorted by sort_key
SortPhases ==
    /\ ~Panicked
    /\ renderPc = "sort"
    /\ phase' = [v \in Views |-> SortByKey(phase[v])]
    /\ renderPc' = "prepare"
    /\ UNCHANGED <<variant, mainPc, frame, panic, mainVars, shaderLoaded, extracted,
                   meshInstances, views, simAtExtract, liveAtExtract, pipelines, compiled,
                   requests, errLog, queueLog, instanceBuffer, buffersCreated, passLog,
                   stageRuns>>

\* ------------------------------------------------------ GPU buffer preparer
\* the four bytes of an f32 in memory (little endian)
F32Bytes(w) ==
    <<w % 256, (w \div 256) % 256, (w \div 65536) % 256, (w \div 16777216) % 256>>

\* mutant of RecordBytes: the fields are laid out color first
RecordBytesColorFirst(r) ==
    F32Bytes(r.color[1]) \o F32Bytes(r.color[2]) \o F32Bytes(r.color[3])
    \o F32Bytes(r.color[4])
    \o F32Bytes(r.position[1]) \o F32Bytes(r.position[2]) \o F32Bytes(r.position[3])
    \o F32Bytes(r.scale)

\* #[repr(C)] struct InstanceData as bytes: position (Vec3), scale, color
RecordBytes(r) ==
    F32Bytes(r.position[1]) \o F32Bytes(r.position[2]) \o F32Bytes(r.position[3])
    \o F32Bytes(r.scale)
    \o F32Bytes(r.color[1]) \o F32Bytes(r.color[2]) \o F32Bytes(r.color[3])
    \o F32Bytes(r.color[4])

\* bytemuck::cast_slice(records): the records' bytes one after the other
RECURSIVE CastSlice(_)
CastSlice(records) ==
    IF records = <<>> THEN <<>>
    ELSE RecordBytes(Head(records)) \o CastSlice(Tail(records))

\* mutant of PreparedHosts: hosts without instance records are passed over
HostsWithRecords == {h \in Hosts : extracted[h] # None /\ Unwrap(extracted[h]) # <<>>}

\* Query<(Entity, &InstancedMaterialHost)> of the render world
PreparedHosts == {h \in Hosts : extracted[h] # None}

\* mutant of InstancesOf: the render world reads the main world's vector
\* instead of a copy of its own
InstancesSharedWithMainWorld(h) == hostBuffer[h]

\* the instance records of host h that the query hands to the loop: the render
\* world's own copy
InstancesOf(h) == Unwrap(extracted[h])

\* the position of host h in the query's iteration
QueryIndex(h) == Cardinality({g \in PreparedHosts : g < h})

\* mutant of InstanceBufferOf: the buffers of the first frame are handed out
\* again instead of new ones
InstanceBufferRecycled(h, records) ==
    [buffer |-> [id |-> QueryIndex(h) + 1,
                 label |-> "instance data buffer",
                 contents |-> CastSlice(records),
                 usage |-> {"VERTEX", "COPY_DST"}],
     length |-> Len(records)]

\* InstanceBuffer { buffer: create_buffer_with_data(..), length: instances.buffer.len() }
\* for host h, given the host's records
InstanceBufferOf(h, records) ==
    [buffer |-> [id |-> buffersCreated + QueryIndex(h) + 1,
                 label |-> "instance data buffer",
                 contents |-> CastSlice(records),
                 usage |-> {"VERTEX", "COPY_DST"}],
     length |-> Len(records)]

\* fn prepare_instance_buffers, in RenderSet::Prepare; the insert commands are
\* applied when the set is flushed
PrepareInstanceBuffers ==
    /\ ~Panicked
    /\ renderPc = "prepare"
    /\ instanceBuffer' = [h \in Hosts |->
            IF h \in PreparedHosts
            THEN Some(InstanceBufferOf(h, InstancesOf(h)))
            ELSE instanceBuffer[h]]
    /\ buffersCreated' = buffersCreated + Cardinality(PreparedHosts)
    /\ renderPc' = "render"
    /\ stageRuns' = [stageRuns EXCEPT !.prepare = @ + 1]
    /\ UNCHANGED <<variant, mainPc, frame, panic, mainVars, shaderLoaded, extracted,
                   meshInstances, views, simAtExtract, liveAtExtract, queueVars, passLog>>

\* ---------------------------------------------------- draw command sequencer
Command(op, slot, resource, range, instances) ==
    [op |-> op, slot |-> slot, resource |-> resource, range |-> range,
     instances |-> instances]

NoRange == <<0, 0>>

\* SetItemPipeline: fails while the item's pipeline is not ready in the cache
SetItemPipeline(item, ready) ==
    IF ready
    THEN [result |-> "Success",
          commands |-> <<Command("set_render_pipeline", 0, ToString(item.pipeline), NoRange, NoRange)>>]
    ELSE [result |-> "Failure", commands |-> <<>>]

\* SetMesh2dViewBindGroup<I>
SetMesh2dViewBindGroup(I) ==
    [result |-> "Success",
     commands |-> <<Command("set_bind_group", I, "mesh2d_view", NoRange, NoRange)>>]

\* SetMesh2dBindGroup<I>
SetMesh2dBindGroup(I) ==
    [result |-> "Success",
     commands |-> <<Command("set_bind_group", I, "mesh2d", NoRange, NoRange)>>]

\* mutant of DrawMeshInstanced: the instance buffer is bound ahead of the mesh
\* vertex buffer and the index buffer after the draw
DrawMeshInstancedReordered(item, instance_buffer, meshes, render_mesh_instances) ==
    IF render_mesh_instances[item.entity] = None
    THEN [result |-> "Failure", commands |-> <<>>]
    ELSE LET mesh_instance == Unwrap(render_mesh_instances[item.entity]) IN
    IF mesh_instance.mesh_asset_id \notin DOMAIN meshes
    THEN [result |-> "Failure", commands |-> <<>>]
    ELSE LET gpu_mesh == meshes[mesh_instance.mesh_asset_id]
             binds == <<Command("set_vertex_buffer", 1, ToString(instance_buffer.buffer.id), NoRange, NoRange),
                        Command("set_vertex_buffer", 0, mesh_instance.mesh_asset_id, NoRange, NoRange)>> IN
    IF gpu_mesh.buffer_info.indexed
    THEN [result |-> "Success",
          commands |-> binds \o
            <<Command("draw_indexed", 0, "", <<0, gpu_mesh.buffer_info.count>>,
                      <<0, instance_buffer.length>>),
              Command("set_index_buffer", 0, mesh_instance.mesh_asset_id, NoRange, NoRange)>>]
    ELSE [result |-> "Success",
          commands |-> binds \o
            <<Command("draw", 0, "", <<0, gpu_mesh.vertex_count>>,
                      <<0, instance_buffer.length>>)>>]

\* mutant of DrawMeshInstanced: the indexed draw runs over the vertex count and
\* every draw over one instance too many
DrawMeshInstancedWrongRanges(item, instance_buffer, meshes, render_mesh_instances) ==
    IF render_mesh_instances[item.entity] = None
    THEN [result |-> "Failure", commands |-> <<>>]
    ELSE LET mesh_instance == Unwrap(render_mesh_instances[item.entity]) IN
    IF mesh_instance.mesh_asset_id \notin DOMAIN meshes
    THEN [result |-> "Failure", commands |-> <<>>]
    ELSE LET gpu_mesh == meshes[mesh_instance.mesh_asset_id]
             binds == <<Command("set_vertex_buffer", 0, mesh_instance.mesh_asset_id, NoRange, NoRange),
                        Command("set_vertex_buffer", 1, ToString(instance_buffer.buffer.id), NoRange, NoRange)>> IN
    IF gpu_mesh.buffer_info.indexed
    THEN [result |-> "Success",
          commands |-> binds \o
            <<Command("set_index_buffer", 0, mesh_instance.mesh_asset_id, NoRange, NoRange),
              Command("draw_indexed", 0, "", <<0, gpu_mesh.vertex_count>>,
                      <<0, instance_buffer.length>>)>>]
    ELSE [result |-> "Success",
          commands |-> binds \o
            <<Command("draw", 0, "", <<0, gpu_mesh.vertex_count>>,
                      <<0, instance_buffer.length + 1>>)>>]

\* impl RenderCommand for DrawMeshInstanced: fn render
DrawMeshInstanced(item, instance_buffer, meshes, render_mesh_instances) ==
    IF render_mesh_instances[item.entity] = None
    THEN [result |-> "Failure", commands |-> <<>>]
    ELSE LET mesh_instance == Unwrap(render_mesh_instances[item.entity]) IN
    IF mesh_instance.mesh_asset_id \notin DOMAIN meshes
    THEN [result |-> "Failure", commands |-> <<>>]
    ELSE LET gpu_mesh == meshes[mesh_instance.mesh_asset_id]
             binds == <<Command("set_vertex_buffer", 0, mesh_instance.mesh_asset_id, NoRange, NoRange),
                        Command("set_vertex_buffer", 1, ToString(instance_buffer.buffer.id), NoRange, NoRange)>> IN
    IF gpu_mesh.buffer_info.indexed
    THEN [result |-> "Success",
          commands |-> binds \o
            <<Command("set_index_buffer", 0, mesh_instance.mesh_asset_id, NoRange, NoRange),
              Command("draw_indexed", 0, "", <<0, gpu_mesh.buffer_info.count>>,
                      <<0, instance_buffer.length>>)>>]
    ELSE [result |-> "Success",
          commands |-> binds \o
            <<Command("draw", 0, "", <<0, gpu_mesh.vertex_count>>,
                      <<0, instance_buffer.length>>)>>]

\* a tuple of render commands runs them in order and stops at the first Failure
RECURSIVE RunTuple(_, _)
RunTuple(results, done) ==
    IF results = <<>> THEN [result |-> "Success", commands |-> done]
    ELSE IF Head(results).result = "Failure"
    THEN [result |-> "Failure", commands |-> done \o Head(results).commands]
    ELSE RunTuple(Tail(results), done \o Head(results).commands)

\* type DrawCustom = (SetItemPipeline, SetMesh2dViewBindGroup<0>, SetMesh2dBindGroup<1>,
\* DrawMeshInstanced), run for one item whose InstanceBuffer the item query found
DrawCustom(item, instance_buffer, ready) ==
    LET first == <<SetItemPipeline(item, ready), SetMesh2dViewBindGroup(0), SetMesh2dBindGroup(1)>>
        head == RunTuple(first, <<>>) IN
    IF head.result = "Failure" THEN head
    ELSE RunTuple(<<DrawMeshInstanced(item, instance_buffer, GpuMeshes, meshInstances)>>,
                  head.commands)

\* One item of a phase is drawn.  type ItemWorldQuery = Read<InstanceBuffer>: the
\* phase executor unwraps the item query, so an entity without the component
\* panics before any command of the tuple runs.
DrawItem(item) ==
    IF instanceBuffer[item.entity] = None
    THEN [entity |-> item.entity, result |-> "Panic", commands |-> <<>>]
    ELSE LET r == DrawCustom(item, Unwrap(instanceBuffer[item.entity]), shaderLoaded) IN
         [entity |-> item.entity, result |-> r.result, commands |-> r.commands]

\* the items of a phase are drawn in order; a panic ends the pass
RECURSIVE DrawPhase(_, _)
DrawPhase(items, done) ==
    IF items = <<>> THEN done
    ELSE LET r == DrawItem(Head(items)) IN
         IF r.result = "Panic" THEN Append(done, r)
         ELSE DrawPhase(Tail(items), Append(done, r))

PassPanics(log) == \E i \in 1..Len(log) : log[i].result = "Panic"

\* RenderSet::Render: the 2d pass of every view draws its Transparent2d phase
RenderPhases ==
    /\ ~Panicked
    /\ renderPc = "render"
    /\ passLog' = [v \in Views |-> DrawPhase(phase[v], <<>>)]
    /\ panic' = IF \E v \in Views : PassPanics(passLog'[v]) THEN "draw" ELSE "none"
    /\ renderPc' = "cleanup"
    /\ stageRuns' = [stageRuns EXCEPT !.render = @ + 1]
    /\ UNCHANGED <<variant, mainPc, frame, mainVars, shaderLoaded, extracted, meshInstances,
                   views, simAtExtract, liveAtExtract, queueVars, bufferVars>>

\* RenderSet::Cleanup: the render world's entities are cleared, and with them
\* the extracted components, the InstanceBuffers and the phases
Cleanup ==
    /\ ~Panicked
    /\ renderPc = "cleanup"
    /\ extracted' = [h \in Hosts |-> None]
    /\ instanceBuffer' = [h \in Hosts |-> None]
    /\ phase' = EmptyPhases
    /\ renderPc' = "idle"
    /\ UNCHANGED <<variant, mainPc, frame, panic, mainVars, shaderLoaded, meshInstances,
                   views, simAtExtract, liveAtExtract, pipelines, compiled, requests,
                   errLog, queueLog, buffersCreated, passLog, stageRuns>>

\* ---------------------------------------------------------- specification
\* no system has run yet
NoRuns == [aggregate |-> 0, queue |-> 0, prepare |-> 0, render |-> 0]

Init ==
    /\ variant \in Variants
    /\ mainPc = "update"
    /\ renderPc = "idle"
    /\ frame = 0
    /\ simOps = 0
    /\ panic = "none"
    /\ hasChildren = [h \in Hosts |-> FALSE]
    /\ children = [h \in Hosts |-> <<>>]
    /\ entities = {}
    /\ child = [c \in ChildIds |-> None]
    /\ hostBuffer = [h \in Hosts |-> <<>>]
    /\ hostMesh = [h \in Hosts |-> "quad"]
    /\ hostZ = [h \in Hosts |-> 0]
    /\ cameraHdr = [v \in Views |-> FALSE]
    /\ shaderLoaded = FALSE
    /\ extracted = [h \in Hosts |-> None]
    /\ meshInstances = [h \in Hosts |-> None]
    /\ views = [v \in Views |-> [hdr |-> FALSE, z |-> CameraZ]]
    /\ pipelines = {}
    /\ phase = EmptyPhases
    /\ instanceBuffer = [h \in Hosts |-> None]
    /\ simAtExtract = [h \in Hosts |-> <<>>]
    /\ liveAtExtract = [h \in Hosts |-> <<>>]
    /\ requests = {}
    /\ compiled = <<>>
    /\ errLog = {}
    /\ queueLog = EmptyPhases
    /\ buffersCreated = 0
    /\ passLog = EmptyPhases
    /\ stageRuns = NoRuns

Simulate ==
    \/ \E h \in Hosts, v \in SpawnValues : AddChild(h, v)
    \/ \E h \in Hosts : AddPlainChild(h)
    \/ \E c \in ChildIds, keep \in BOOLEAN : RemoveChild(c, keep)
    \/ \E c \in ChildIds : DespawnChildOnly(c)
    \/ \E c \in ChildIds, t \in Translations : SetTranslation(c, t)
    \/ \E c \in ChildIds, s \in Scales, col \in Colors : SetChildAttributes(c, s, col)
    \/ \E h \in Hosts, d \in DirectValues : PushInstance(h, d)
    \/ \E h \in Hosts : PopInstance(h)
    \/ \E h \in Hosts, m \in MeshHandles \cup {NoMesh} : SetMesh(h, m)
    \/ \E h \in Hosts, z \in Depths : SetHostZ(h, z)
    \/ \E v \in Views, b \in BOOLEAN : SetCameraHdr(v, b)

Next ==
    \/ Simulate
    \/ LoadShader
    \/ PrepareBuffer
    \/ FinishUpdate
    \/ Extract
    \/ QueueCustom
    \/ SortPhases
    \/ PrepareInstanceBuffers
    \/ RenderPhases
    \/ Cleanup

Spec == Init /\ [][Next]_vars

\* The draw command sequencer on its own: the phase executor may hand it any
\* item of a phase, whatever the render world holds for the item's entity.
DrawInputBuffers ==
    {None} \cup
    {Some([buffer |-> [id |-> 1, label |-> "instance data buffer",
                       contents |-> CastSlice(records), usage |-> {"VERTEX", "COPY_DST"}],
           length |-> Len(records)]) :
        records \in {<<>>} \cup {<<d>> : d \in DirectValues}}

DrawInputPhases ==
    {<<>>} \cup {<<Transparent2d(0, e, 1)>> : e \in Hosts}
    \cup {<<Transparent2d(0, e, 1), Transparent2d(0, f, 1)>> : e \in Hosts, f \in Hosts}

DrawInit ==
    /\ variant \in Variants
    /\ mainPc = "sync"
    /\ renderPc = "render"
    /\ frame = 1
    /\ simOps = 0
    /\ panic = "none"
    /\ hasChildren = [h \in Hosts |-> FALSE]
    /\ children = [h \in Hosts |-> <<>>]
    /\ entities = {}
    /\ child = [c \in ChildIds |-> None]
    /\ hostBuffer = [h \in Hosts |-> <<>>]
    /\ hostMesh = [h \in Hosts |-> "quad"]
    /\ hostZ = [h \in Hosts |-> 0]
    /\ cameraHdr = [v \in Views |-> FALSE]
    /\ shaderLoaded \in BOOLEAN
    /\ extracted = [h \in Hosts |-> None]
    /\ meshInstances \in [Hosts -> {None} \cup
            {Some([mesh_asset_id |-> m, z |-> 0]) : m \in {"quad", "strip", "unloaded"}}]
    /\ views = [v \in Views |-> [hdr |-> FALSE, z |-> CameraZ]]
    /\ pipelines = {}
    /\ phase \in [Views -> DrawInputPhases]
    /\ \A v \in Views : v > 1 => Len(phase[v]) <= 1
    /\ instanceBuffer \in [Hosts -> DrawInputBuffers]
    /\ simAtExtract = [h \in Hosts |-> <<>>]
    /\ liveAtExtract = [h \in Hosts |-> <<>>]
    /\ requests = {}
    /\ compiled = <<>>
    /\ errLog = {}
    /\ queueLog = EmptyPhases
    /\ buffersCreated = 0
    /\ passLog = EmptyPhases
    /\ stageRuns = NoRuns

SpecDraw == DrawInit /\ [][RenderPhases]_vars

\* ======================================================================
\* Properties
\* ======================================================================

\* the record a child value stands for in its host's buffer
MatchesChild(record, v) ==
    /\ record.position = v.translation
    /\ record.scale = v.scale
    /\ record.color = v.color

\* C1: after every run of prepare_buffer each host's buffer has one record per
\* live child of the host, the i-th record carrying the translation, scale and
\* color of the i-th child, and nothing of an earlier frame.
\* (mainPc = "sync" is the main world between the end of prepare_buffer and
\* the next frame's first simulation step.)
C1_AggregationFaithful ==
    (variant = "children" /\ mainPc = "sync" /\ ~Panicked) =>
        \A h \in Hosts :
            /\ Len(hostBuffer[h]) = Len(LiveChildren(h))
            /\ \A i \in 1..Len(hostBuffer[h]) :
                    i <= Len(LiveChildren(h)) => MatchesChild(hostBuffer[h][i], LiveChildren(h)[i])

\* the hosts whose specialization fails in view v of the frame being rendered
SpecializationFails(v, e) ==
    /\ meshInstances[e] # None
    /\ Unwrap(meshInstances[e]).mesh_asset_id \in DOMAIN GpuMeshes
    /\ LET mesh == GpuMeshes[Unwrap(meshInstances[e]).mesh_asset_id]
       IN  ~Mesh2dSpecialize(PipelineKey(views[v], mesh), mesh.layout).ok

\* the hosts whose mesh resolves and whose specialization succeeds in view v
Queueable(v, e) ==
    /\ meshInstances[e] # None
    /\ Unwrap(meshInstances[e]).mesh_asset_id \in DOMAIN GpuMeshes
    /\ ~SpecializationFails(v, e)

Occurrences(s, x) == Cardinality({i \in 1..Len(s) : s[i] = x})

\* C2: when specialization fails for a host in a view during queue_custom, the
\* error is logged, the host gets no queue entry in that view, the frame is not
\* aborted, and every other host and view is queued in the same frame.
\* (renderPc = "sort" is the render world right after queue_custom.)
C2_SpecializationFailureSkipsHost ==
    renderPc = "sort" =>
        \A v \in Views, e \in Hosts :
            SpecializationFails(v, e) =>
                /\ panic # "queue_custom"
                /\ [view |-> v, entity |-> e] \in errLog
                /\ Occurrences(queueLog[v], e) = 0
                /\ \A w \in Views, f \in Hosts :
                        Queueable(w, f) => Occurrences(queueLog[w], f) = 1

InRenderFrame == renderPc \in {"queue", "sort", "prepare", "render", "cleanup"}

\* the instance range of the draw call of a drawn item
DrawnInstances(entry) == entry.commands[Len(entry.commands)].instances

\* C3: in a frame in which a host has no live child (also when its children
\* were removed after an earlier frame), the host's aggregated buffer is empty,
\* its InstanceBuffer has record count 0, and its draw has instance count 0 and
\* is a Success.
C3_ZeroChildrenDrawZero ==
    (variant = "children" /\ InRenderFrame) =>
        \A h \in Hosts :
            liveAtExtract[h] = <<>> =>
                /\ simAtExtract[h] = <<>>
                /\ extracted[h] = Some(<<>>)
                /\ renderPc \in {"render", "cleanup"} =>
                        /\ instanceBuffer[h] # None
                        /\ Unwrap(instanceBuffer[h]).length = 0
                /\ renderPc = "cleanup" =>
                        \A v \in Views : \A i \in 1..Len(passLog[v]) :
                            (passLog[v][i].entity = h /\ passLog[v][i].commands # <<>>) =>
                                /\ passLog[v][i].result = "Success"
                                /\ DrawnInstances(passLog[v][i]) = <<0, 0>>

\* C4: two specialization requests with the same key and mesh vertex layout,
\* from any hosts or views, in one frame or in different frames, are answered
\* with the same pipeline id, and no key and layout is compiled twice.
C4_OnePipelinePerKey ==
    /\ \A r1 \in requests, r2 \in requests :
            (r1.key = r2.key /\ r1.layout = r2.layout) => r1.id = r2.id
    /\ \A i \in 1..Len(compiled), j \in 1..Len(compiled) :
            compiled[i] = compiled[j] => i = j

\* two hosts, in two frames, were answered with one pipeline that was compiled once
C4_Witness ==
    \E r1 \in requests, r2 \in requests :
        /\ r1.frame # r2.frame
        /\ r1.entity # r2.entity
        /\ r1.key = r2.key /\ r1.layout = r2.layout
        /\ r1.id = r2.id
        /\ Len(compiled) = 1

\* the number of live children the frame being rendered was extracted with; a
\* host of the direct variant holds its children's records itself
LiveCount(h) ==
    IF variant = "children" THEN Len(liveAtExtract[h]) ELSE Len(simAtExtract[h])

PassEntriesOf(v, h) == {i \in 1..Len(passLog[v]) : passLog[v][i].entity = h}

\* C5: for every host with n live children whose mesh resolves (and whose
\* pipeline specializes), in each frame and view the queue builder adds exactly
\* one entry for the host and the sequencer issues exactly one draw for it, with
\* instance count n.  (renderPc = "cleanup" is the render world after the passes.)
C5_OneEntryOneDrawOfN ==
    renderPc = "cleanup" =>
        \A v \in Views, h \in Hosts :
            Queueable(v, h) =>
                /\ Occurrences(queueLog[v], h) = 1
                /\ Cardinality(PassEntriesOf(v, h)) = 1
                /\ \A i \in PassEntriesOf(v, h) :
                        passLog[v][i].result = "Success" =>
                            DrawnInstances(passLog[v][i]) = <<0, LiveCount(h)>>

\* the GpuMesh of a drawn item's entity
MeshOf(e) == GpuMeshes[Unwrap(meshInstances[e]).mesh_asset_id]

\* op and slot of every command of an entry, in order
OpsAndSlots(entry) ==
    [j \in 1..Len(entry.commands) |-> <<entry.commands[j].op, entry.commands[j].slot>>]

ExpectedOpsAndSlots(indexed) ==
    <<<<"set_render_pipeline", 0>>, <<"set_bind_group", 0>>, <<"set_bind_group", 1>>,
      <<"set_vertex_buffer", 0>>, <<"set_vertex_buffer", 1>>>>
    \o (IF indexed THEN <<<<"set_index_buffer", 0>>, <<"draw_indexed", 0>>>>
        ELSE <<<<"draw", 0>>>>)

\* C6: every item drawn with Success issued exactly: set pipeline, view bind
\* group at 0, mesh bind group at 1, vertex buffer 0 (the mesh's), vertex
\* buffer 1 (the instance buffer), the index buffer only if the mesh is
\* indexed, then one draw.
C6_CommandOrder ==
    renderPc = "cleanup" =>
        \A v \in Views : \A i \in 1..Len(passLog[v]) :
            passLog[v][i].result = "Success" =>
                LET entry == passLog[v][i]
                    e == entry.entity IN
                /\ OpsAndSlots(entry) = ExpectedOpsAndSlots(MeshOf(e).buffer_info.indexed)
                /\ entry.commands[1].resource = ToString(phase[v][i].pipeline)
                /\ entry.commands[4].resource = Unwrap(meshInstances[e]).mesh_asset_id
                /\ entry.commands[5].resource = ToString(Unwrap(instanceBuffer[e]).buffer.id)

\* one pass drew an indexed and a non-indexed mesh with Success
C6_Witness ==
    /\ renderPc = "cleanup"
    /\ \E v \in Views : \E i \in 1..Len(passLog[v]), j \in 1..Len(passLog[v]) :
        /\ passLog[v][i].result = "Success"
        /\ passLog[v][j].result = "Success"
        /\ MeshOf(passLog[v][i].entity).buffer_info.indexed
        /\ ~MeshOf(passLog[v][j].entity).buffer_info.indexed

\* C8: the draw has instance range 0..L, L the record count of the entry's
\* InstanceBuffer; an indexed mesh is drawn indexed over 0..count, any other
\* mesh non-indexed over 0..vertex_count.
C8_DrawRanges ==
    renderPc = "cleanup" =>
        \A v \in Views : \A i \in 1..Len(passLog[v]) :
            passLog[v][i].result = "Success" =>
                LET entry == passLog[v][i]
                    mesh == MeshOf(entry.entity)
                    draw == entry.commands[Len(entry.commands)] IN
                /\ draw.instances = <<0, Unwrap(instanceBuffer[entry.entity]).length>>
                /\ IF mesh.buffer_info.indexed
                   THEN draw.op = "draw_indexed" /\ draw.range = <<0, mesh.buffer_info.count>>
                   ELSE draw.op = "draw" /\ draw.range = <<0, mesh.vertex_count>>

\* a non-indexed mesh was drawn with one instance and an indexed one with none
C8_Witness ==
    /\ renderPc = "cleanup"
    /\ \E v \in Views : \E i \in 1..Len(passLog[v]), j \in 1..Len(passLog[v]) :
        /\ passLog[v][i].result = "Success"
        /\ passLog[v][j].result = "Success"
        /\ DrawnInstances(passLog[v][i]) = <<0, 1>>
        /\ passLog[v][i].commands[Len(passLog[v][i].commands)].op = "draw"
        /\ DrawnInstances(passLog[v][j]) = <<0, 0>>
        /\ passLog[v][j].commands[Len(passLog[v][j].commands)].op = "draw_indexed"

\* the mesh instance or the mesh asset of an item's entity is missing
MeshMissing(e) ==
    \/ meshInstances[e] = None
    \/ Unwrap(meshInstances[e]).mesh_asset_id \notin DOMAIN GpuMeshes

IsBindOrDraw(command) ==
    command.op \in {"set_vertex_buffer", "set_index_buffer", "draw", "draw_indexed"}

C9_ExtractedSnapshotIsolated ==
    InRenderFrame =>
        \A h \in Hosts :
            /\ extracted[h] # None
            /\ Len(Unwrap(extracted[h])) = Len(simAtExtract[h])
            /\ \A i \in 1..Len(simAtExtract[h]) :
                    /\ Unwrap(extracted[h])[i].position = simAtExtract[h][i].position
                    /\ Unwrap(extracted[h])[i].scale = simAtExtract[h][i].scale
                    /\ Unwrap(extracted[h])[i].color = simAtExtract[h][i].color
            /\ renderPc \in {"render", "cleanup"} =>
                    /\ instanceBuffer[h] # None
                    /\ Unwrap(instanceBuffer[h]).length = Len(simAtExtract[h])
                    /\ Unwrap(instanceBuffer[h]).buffer.contents = CastSlice(simAtExtract[h])
            /\ renderPc = "cleanup" =>
                    \A v \in Views : \A i \in PassEntriesOf(v, h) :
                        passLog[v][i].result = "Success" =>
                            DrawnInstances(passLog[v][i]) = <<0, Len(simAtExtract[h])>>

\* the simulation rewrote a host's records while the frame extracted before was
\* still being prepared, and the frame was drawn
C9_Witness ==
    /\ renderPc = "cleanup"
    /\ \E h \in Hosts :
        /\ simAtExtract[h] # <<>>
        /\ hostBuffer[h] # simAtExtract[h]
        /\ \E v \in Views : \E i \in PassEntriesOf(v, h) : passLog[v][i].result = "Success"

\* the f32 stored in four bytes
F32FromBytes(b) == b[1] + 256 * b[2] + 65536 * b[3] + 16777216 * b[4]

\* the i-th f32 of a byte buffer
F32At(bytes, i) == F32FromBytes(SubSeq(bytes, 4 * (i - 1) + 1, 4 * i))

\* the records read back from a buffer of 32-byte records
ReadBack(bytes) ==
    [i \in 1..(Len(bytes) \div 32) |->
        LET w == 8 * (i - 1) IN
        [position |-> <<F32At(bytes, w + 1), F32At(bytes, w + 2), F32At(bytes, w + 3)>>,
         scale |-> F32At(bytes, w + 4),
         color |-> <<F32At(bytes, w + 5), F32At(bytes, w + 6), F32At(bytes, w + 7),
                     F32At(bytes, w + 8)>>]]

\* C10: each frame the preparer attaches to every host with instance data an
\* InstanceBuffer created in that frame, whose contents are the host's records
\* in order, 32 bytes each with nothing between them, whose record count is
\* the number of records, and which reads back as the records written.
C10_InstanceBufferRoundTrip ==
    renderPc \in {"render", "cleanup"} =>
        \A h \in Hosts :
            extracted[h] # None =>
                /\ instanceBuffer[h] # None
                /\ LET ib == Unwrap(instanceBuffer[h])
                       records == Unwrap(extracted[h]) IN
                    /\ ib.length = Len(records)
                    /\ Len(ib.buffer.contents) = 32 * Len(records)
                    /\ ReadBack(ib.buffer.contents) = records
                    /\ ib.buffer.usage = {"VERTEX", "COPY_DST"}
                    /\ ib.buffer.id > buffersCreated - NumHosts
                    /\ ib.buffer.id <= buffersCreated
                    /\ \A g \in Hosts :
                            (g # h /\ instanceBuffer[g] # None) =>
                                Unwrap(instanceBuffer[g]).buffer.id # ib.buffer.id

\* in the second frame a host got a buffer of two different records
C10_Witness ==
    /\ renderPc = "render"
    /\ frame = 2
    /\ \E h \in Hosts :
        /\ instanceBuffer[h] # None
        /\ Unwrap(instanceBuffer[h]).length = 2
        /\ Unwrap(extracted[h])[1] # Unwrap(extracted[h])[2]
        /\ Unwrap(instanceBuffer[h]).buffer.id > NumHosts

\* the entries of view v's phase that belong to entity e
EntriesOf(v, e) == {i \in 1..Len(phase[v]) : phase[v][i].entity = e}

\* the pipeline the cache holds for host e's mesh in view v
CachedPipelineOf(v, e) ==
    LET mesh == GpuMeshes[Unwrap(meshInstances[e]).mesh_asset_id]
    IN  {c.id : c \in CacheHit(pipelines, mesh.layout, PipelineKey(views[v], mesh))}

\* C11: after queue_custom every view's phase holds exactly one entry for each
\* host whose mesh instance and mesh asset resolve and whose specialization
\* succeeds, and none for anything else; each entry carries the host's entity,
\* the specialized pipeline, the DrawCustom draw function, batch range [0,1)
\* and no dynamic offset.
C11_QueueEntries ==
    renderPc = "sort" =>
        \A v \in Views :
            /\ \A e \in Hosts :
                    Cardinality(EntriesOf(v, e)) = IF Queueable(v, e) THEN 1 ELSE 0
            /\ \A i \in 1..Len(phase[v]) :
                    LET item == phase[v][i] IN
                    /\ item.entity \in Hosts
                    /\ Queueable(v, item.entity)
                    /\ CachedPipelineOf(v, item.entity) = {item.pipeline}
                    /\ item.draw_function = "DrawCustom"
                    /\ item.batch_range = <<0, 1>>
                    /\ item.dynamic_offset = None

\* host e's mesh instance or mesh asset does not resolve in the frame being rendered
Unresolved(e) ==
    \/ meshInstances[e] = None
    \/ Unwrap(meshInstances[e]).mesh_asset_id \notin DOMAIN GpuMeshes

\* the loop of queue_custom run over the hosts outside `absent` only
RECURSIVE QueueLoopWithout(_, _, _)
QueueLoopWithout(k, st, absent) ==
    IF k > NumViews * NumHosts \/ st.panicked THEN st
    ELSE LET v == ((k - 1) \div NumHosts) + 1
             e == ((k - 1) % NumHosts) + 1
         IN  QueueLoopWithout(k + 1, IF e \in absent THEN st ELSE QueueHost(v, e, st), absent)

\* a run of queue_custom
QueueCustomStep == renderPc = "queue" /\ renderPc' = "sort"

\* C12: a run of queue_custom adds no queue entry in any view for a host whose
\* mesh instance or mesh asset does not resolve, raises no error for it, and
\* leaves the phases, the error log, the pipeline cache and the outcome of the
\* run exactly as a run without that host would.
C12_UnresolvedHostSkipped ==
    [][QueueCustomStep =>
        \A e \in Hosts :
            Unresolved(e) =>
                LET st == QueueLoopWithout(1,
                            [pipelines |-> pipelines, compiled |-> compiled,
                             requests |-> requests, phase |-> phase, errLog |-> errLog,
                             queueLog |-> queueLog, panicked |-> FALSE,
                             variant |-> variant], {e})
                IN  /\ \A v \in Views : \A i \in 1..Len(phase'[v]) : phase'[v][i].entity # e
                    /\ \A v \in Views : [view |-> v, entity |-> e] \notin errLog'
                    /\ phase' = st.phase
                    /\ queueLog' = st.queueLog
                    /\ errLog' = st.errLog
                    /\ pipelines' = st.pipelines
                    /\ compiled' = st.compiled
                    /\ (panic' = "queue_custom") = st.panicked]_vars

\* queue_custom has run in a frame with an unresolved host and a queued one
C12_Witness ==
    /\ renderPc = "sort"
    /\ panic = "none"
    /\ \E e \in Hosts, f \in Hosts, v \in Views :
            /\ Unresolved(e)
            /\ Cardinality(EntriesOf(v, f)) = 1

\* C13: when prepare_buffer has run, a second run with no change to any child
\* set or child value in between writes into every host's buffer exactly the
\* records the first run left there.
\* (PrepareBufferOf in a state with mainPc = "sync" is what the next run of the
\* loop body computes from the state the first run left.)
C13_AggregationIdempotent ==
    (variant = "children" /\ mainPc = "sync" /\ ~Panicked) =>
        \A h \in Hosts : PrepareBufferOf(h) = hostBuffer[h]

\* prepare_buffer has run over a host with children and filled its buffer
C13_Witness ==
    /\ variant = "children"
    /\ mainPc = "sync"
    /\ ~Panicked
    /\ \E h \in AggregatedHosts : Len(hostBuffer[h]) = MaxChildren

\* host e's mesh resolves in the frame being rendered
Resolved(e) == InRenderFrame /\ ~Unresolved(e)

\* what CustomPipeline::specialize has to return for a key and layout, given
\* what the base specialization returns for them
DescriptorAsClaimed(key, layout) ==
    LET base == Mesh2dSpecialize(key, layout)
        got == CustomSpecialize(key, layout)
    IN  IF ~base.ok
        THEN ~got.ok /\ got.value = None
        ELSE /\ got.ok
             /\ LET b == Unwrap(base.value)
                    d == Unwrap(got.value)
                    n == Len(b.vertex.buffers)
                IN  /\ d.vertex.shader_defs = Append(b.vertex.shader_defs, "MESH_BINDGROUP_1")
                    /\ Len(d.vertex.buffers) = n + 1
                    /\ SubSeq(d.vertex.buffers, 1, n) = b.vertex.buffers
                    /\ d.vertex.buffers[n + 1] =
                            [array_stride |-> 32, step_mode |-> "Instance",
                             attributes |->
                                <<[format |-> "Float32x4", offset |-> 0, shader_location |-> 3],
                                  [format |-> "Float32x4", offset |-> 16, shader_location |-> 4]>>]
                    /\ d.vertex.shader = CustomShader
                    /\ d.fragment.shader = CustomShader
                    \* nothing else differs from the base descriptor
                    /\ DOMAIN d = DOMAIN b
                    /\ DOMAIN d.vertex = DOMAIN b.vertex
                    /\ [d EXCEPT !.vertex = b.vertex, !.fragment.shader = b.fragment.shader] = b

\* C14: for every key and vertex layout queue_custom has specialized (seen in
\* the state right after its run), when the base
\* specialization succeeds CustomPipeline::specialize returns the base
\* descriptor with the MESH_BINDGROUP_1 shader definition added, one
\* per-instance vertex buffer layout appended (stride 32, Float32x4 attributes
\* at location 3 offset 0 and location 4 offset 16), both shader references
\* set to the custom shader and nothing else changed; when the base
\* specialization fails it returns the error and no descriptor.
C14_SpecializedDescriptor ==
    renderPc = "sort" =>
        \A v \in Views, e \in Hosts :
            Resolved(e) =>
                LET mesh == GpuMeshes[Unwrap(meshInstances[e]).mesh_asset_id]
                IN  DescriptorAsClaimed(PipelineKey(views[v], mesh), mesh.layout)

\* queue_custom has specialized a pipeline for one host, and the base
\* specialization has failed for another
C14_Witness ==
    /\ renderPc = "sort"
    /\ \E v \in Views, e \in Hosts :
            /\ Queueable(v, e)
            /\ \E r \in requests : r.entity = e /\ r.view = v /\ r.frame = frame
    /\ \E v \in Views, f \in Hosts : SpecializationFails(v, f) /\ [view |-> v, entity |-> f] \in errLog

\* C15: prepare_buffer fails fatally only if the child list of some host names
\* an entity that does not exist; when every named entity exists it completes.
\* (A panic of prepare_buffer ends the process, so the state it is seen in is
\* the one the run panicked on.)
C15_PanicOnlyOnMissingEntity ==
    panic = "prepare_buffer" =>
        \E h \in Hosts : \E i \in 1..Len(children[h]) : children[h][i] \notin entities

\* the integer an f32 bit pattern of a non-negative whole number stands for
F32ToInt(w) ==
    IF w = 0 THEN 0
    ELSE (8388608 + (w % 8388608)) \div (2 ^ (150 - (w \div 8388608)))

\* the depth of a point of world depth z relative to a view: its z coordinate
\* in the frame of the view's transform (a translation along z)
ViewSpaceDepth(view, z) == F32ToInt(z) - F32ToInt(view.z)

\* C16: the sort key of every queue entry equals the depth of the entry's host
\* relative to the view the entry is queued for.
C16_SortKeyIsViewSpaceDepth ==
    renderPc = "sort" =>
        \A v \in Views : \A i \in 1..Len(phase[v]) :
            LET item == phase[v][i] IN
            F32ToInt(item.sort_key) =
                ViewSpaceDepth(views[v], Unwrap(meshInstances[item.entity]).z)

\* the ids of the GPU buffers prepare_instance_buffers created in the frame
\* being rendered
BuffersOfThisFrame ==
    IF stageRuns.prepare = frame
    THEN {ToString(i) : i \in (buffersCreated - Cardinality(PreparedHosts) + 1)..buffersCreated}
    ELSE {}

\* the instance buffers the sequencer bound in view v
BoundInstanceBuffers(v) ==
    UNION {{passLog[v][i].commands[k].resource :
                k \in {j \in 1..Len(passLog[v][i].commands) :
                          /\ passLog[v][i].commands[j].op = "set_vertex_buffer"
                          /\ passLog[v][i].commands[j].slot = 1}} :
           i \in 1..Len(passLog[v])}

\* C17: frame by frame the stages run in order and once each: queue_custom
\* after the frame's extraction, prepare_instance_buffers after queue_custom
\* and after the aggregation of the frame, the draw after
\* prepare_instance_buffers, the next extraction only after the draw; and the
\* instance buffers the sequencer binds are the ones created in the same frame.
C17_StagesInOrderOncePerFrame ==
    /\ stageRuns.queue <= frame
    /\ stageRuns.prepare <= stageRuns.queue
    /\ stageRuns.render <= stageRuns.prepare
    /\ frame <= stageRuns.render + 1
    /\ variant = "children" =>
            /\ stageRuns.prepare <= stageRuns.aggregate
            /\ stageRuns.aggregate <= frame + 1
    /\ renderPc \in {"sort", "prepare", "render", "cleanup"} => stageRuns.queue = frame
    /\ renderPc \in {"render", "cleanup"} => stageRuns.prepare = frame
    /\ renderPc = "cleanup" =>
            /\ stageRuns.render = frame
            /\ \A v \in Views : BoundInstanceBuffers(v) \subseteq BuffersOfThisFrame

\* the second frame has been drawn from instance buffers
C17_Witness ==
    /\ renderPc = "cleanup"
    /\ frame = MaxFrames
    /\ panic = "none"
    /\ \E v \in Views : BoundInstanceBuffers(v) # {}

\* C18: aggregation is a render-side stage: the n-th run of prepare_buffer
\* comes after the n-th extraction, so prepare_buffer has never run more often
\* than frames have been extracted.
C18_AggregationAfterExtraction ==
    variant = "children" => stageRuns.aggregate <= frame

\* the list L of instance records host h stood for at the last extraction: the
\* values of its children in order (parent/child variant), or the records it
\* held (direct variant)
ListAtExtract(h) ==
    IF variant = "children"
    THEN [i \in 1..Len(liveAtExtract[h]) |-> ChildRecord(liveAtExtract[h][i])]
    ELSE simAtExtract[h]

\* what queue_custom makes of the frame being rendered when run as variant var
QueuedAs(var) ==
    QueueLoop(1, [pipelines |-> pipelines, compiled |-> compiled, requests |-> requests,
                  phase |-> phase, errLog |-> errLog, queueLog |-> queueLog,
                  panicked |-> FALSE, variant |-> var])

\* C19: the two variants are equivalent encodings.  For the list L a host
\* stands for, the instance buffer uploaded for the host holds the bytes of L
\* and counts Len(L) records, which is what the direct variant uploads for a
\* host holding L; and queue_custom of the parent/child variant and of the
\* direct variant make the same queue entries of the same frame.
C19_VariantsEquivalent ==
    /\ renderPc = "render" =>
            \A h \in Hosts :
                instanceBuffer[h] # None =>
                    /\ Unwrap(instanceBuffer[h]).buffer.contents = CastSlice(ListAtExtract(h))
                    /\ Unwrap(instanceBuffer[h]).length = Len(ListAtExtract(h))
    /\ renderPc = "queue" =>
            /\ QueuedAs("children").phase = QueuedAs("direct").phase
            /\ QueuedAs("children").panicked = QueuedAs("direct").panicked

\* C20: when the sequencer runs, every entity queue_custom queued in the frame
\* carries an InstanceBuffer, so no draw ever meets a queued entity without
\* one.
C20_QueuedEntityHasInstanceBuffer ==
    /\ renderPc = "render" =>
            \A v \in Views : \A i \in 1..Len(phase[v]) :
                instanceBuffer[phase[v][i].entity] # None
    /\ panic # "draw"
    /\ \A v \in Views : ~PassPanics(passLog[v])

\* the sequencer is about to draw a phase that holds entries
C20_Witness ==
    /\ renderPc = "render"
    /\ \A v \in Views : Len(phase[v]) = NumHosts
    /\ \E h \in Hosts : Unwrap(extracted[h]) = <<>>

\* the vertex-buffer slots (counted from 0) of a descriptor whose layout is
\* stepped per instance
InstanceSlots(descriptor) ==
    {i - 1 : i \in {j \in 1..Len(descriptor.vertex.buffers) :
                        descriptor.vertex.buffers[j].step_mode = "Instance"}}

\* the slots at which a drawn item's commands bind the item's instance buffer
InstanceBufferSlots(entry) ==
    {entry.commands[k].slot :
        k \in {j \in 1..Len(entry.commands) :
                  /\ entry.commands[j].op = "set_vertex_buffer"
                  /\ entry.commands[j].resource =
                        ToString(Unwrap(instanceBuffer[entry.entity]).buffer.id)}}

\* the slots at which a drawn item's commands bind the mesh's vertex buffer
MeshBufferSlots(entry) ==
    {entry.commands[k].slot :
        k \in {j \in 1..Len(entry.commands) :
                  /\ entry.commands[j].op = "set_vertex_buffer"
                  /\ entry.commands[j].resource =
                        Unwrap(meshInstances[entry.entity]).mesh_asset_id}}

\* C21: for every item the sequencer draws, the pipeline descriptor specialized
\* for the item has its per-instance vertex buffer layout at the very slot at
\* which the sequencer binds the instance buffer, slot 1, and the base
\* specialization's descriptor has exactly one vertex buffer layout, the one
\* of the mesh vertex buffer bound at slot 0.
C21_InstanceLayoutAtBoundSlot ==
    renderPc = "cleanup" =>
        \A v \in Views : \A i \in 1..Len(passLog[v]) :
            LET entry == passLog[v][i] IN
            entry.result = "Success" =>
                LET mesh == MeshOf(entry.entity)
                    key == PipelineKey(views[v], mesh)
                    base == Unwrap(Mesh2dSpecialize(key, mesh.layout).value)
                    d == Unwrap(CustomSpecialize(key, mesh.layout).value)
                IN  /\ InstanceBufferSlots(entry) = {1}
                    /\ InstanceSlots(d) = InstanceBufferSlots(entry)
                    /\ Len(base.vertex.buffers) = 1
                    /\ MeshBufferSlots(entry) = {0}
                    /\ d.vertex.buffers[1] = base.vertex.buffers[1]

\* an item has been drawn with its instance buffer bound
C21_Witness ==
    /\ renderPc = "cleanup"
    /\ \E v \in Views : \E i \in 1..Len(passLog[v]) :
            /\ passLog[v][i].result = "Success"
            /\ InstanceBufferSlots(passLog[v][i]) # {}


====
